---------------------------- MODULE Spec2Model ----------------------------
(* A model of the news collection pipeline of backend/main.py:              *)
(* EnhancedNewsCollector.collect_from_feed, save_articles and               *)
(* collect_all_news, the thread pool the latter uses, and the persistence   *)
(* gateway database.db as the collector consumes it.                        *)
EXTENDS Integers, Sequences, FiniteSets, TLC

(***************************************************************************)
(* Bounds of the model.                                                    *)
(***************************************************************************)
\* Number of configured sources in a full run (the literal FEEDS has 7).
NumFeeds == 2
\* Number of configured sources in the worker-pool specification.
PoolFeeds == 10
\* Number of collection runs on the shared collector.
MaxRuns == 2
\* Longest feed document handed to collect_from_feed on its own.
MaxEntries == 17
\* Most words of a text handed to extract_keywords.
MaxWords == 3

(***************************************************************************)
(* Program constants.                                                      *)
(***************************************************************************)
\* feed.entries[:15]
EntryCap == 15
\* ThreadPoolExecutor(max_workers=8)
max_workers == 8

(***************************************************************************)
(* Strings are sequences of characters, so that str.strip() is computed.   *)
(***************************************************************************)
Whitespace == {" "}

Min(S) == CHOOSE x \in S : \A y \in S : x <= y

Max(S) == CHOOSE x \in S : \A y \in S : x >= y

\* str.strip(): drop leading and trailing whitespace.
StripId(s) == s

Strip(s) ==
  LET keep == {i \in 1..Len(s) : s[i] \notin Whitespace}
  IN  IF keep = {} THEN << >> ELSE SubSeq(s, Min(keep), Max(keep))

\* getattr(entry, name, default): an entry is a record that may lack a field.
GetAttr(entry, name, default) ==
  IF name \in DOMAIN entry THEN entry[name] ELSE default

NoTitle == <<"N", "o", " ", "T", "i", "t", "l", "e">>

\* datetime.now().isoformat(): the collection time, an ISO-8601 timestamp.
NowIso == "NOW"

\* dateutil.parser.parse(s).isoformat(); "" stands for a raised ParserError.
GoodDate == "Tue, 02 Jan 2024 03:04:05 GMT"

DateutilIso(s) == IF s = GoodDate THEN "2024-01-02T03:04:05+00:00" ELSE ""

PublishedRaw(entry) ==
  LET published_str == GetAttr(entry, "published", NowIso)
  IN  IF published_str = NowIso \/ DateutilIso(published_str) = ""
      THEN published_str ELSE DateutilIso(published_str)

Published(entry) ==
  LET published_str == GetAttr(entry, "published", NowIso)
      parsed == IF published_str = NowIso THEN NowIso ELSE DateutilIso(published_str)
  IN  IF parsed = "" THEN NowIso ELSE parsed

\* feed.entries[:15]
FirstEntriesAll(entries) == entries

FirstEntries(entries) ==
  SubSeq(entries, 1, IF Len(entries) < EntryCap THEN Len(entries) ELSE EntryCap)

\* The loop body of collect_from_feed over the given entries, in order.
RECURSIVE BuildArticles(_, _)
BuildArticles(entries, source) ==
  IF entries = << >> THEN << >>
  ELSE LET entry == Head(entries)
           title == Strip(GetAttr(entry, "title", NoTitle))
           link  == Strip(GetAttr(entry, "link", << >>))
       IN  IF title = << >> \/ link = << >>
           THEN BuildArticles(Tail(entries), source)
           ELSE << [title |-> title, link |-> link,
                    published |-> Published(entry), source |-> source,
                    summary |-> GetAttr(entry, "summary", ""),
                    keywords |-> "[]"] >>
                \o BuildArticles(Tail(entries), source)

\* The try block of collect_from_feed.  parse is what feedparser.parse gave:
\* [raises |-> TRUE] when it (or the handling of its result) raised, else the
\* document's entries.  The value is a returned list or a raised exception.
FeedBody(feed_config, parse) ==
  IF parse.raises THEN [raised |-> TRUE, value |-> << >>]
  ELSE IF parse.entries = << >> THEN [raised |-> FALSE, value |-> << >>]
  ELSE [raised |-> FALSE,
        value |-> BuildArticles(FirstEntries(parse.entries), feed_config.source)]

\* collect_from_feed: the except clause turns every exception into [].
CollectNoExcept(feed_config, parse) == FeedBody(feed_config, parse)

CollectFromFeed(feed_config, parse) ==
  LET r == FeedBody(feed_config, parse)
  IN  IF r.raised THEN [raised |-> FALSE, value |-> << >>] ELSE r

(***************************************************************************)
(* Feed documents.                                                         *)
(***************************************************************************)
\* The i-th entry of a document, well-formed; its link names its position.
GoodEntry(i) ==
  [title |-> <<"t">>, link |-> <<"h", ToString(i)>>,
   published |-> GoodDate, summary |-> "s"]

Kinds == {"good", "blank_title", "empty_title", "no_title", "blank_link",
          "empty_link", "no_link", "padded", "bad_date", "no_date",
          "no_summary"}

Without(entry, name) == [k \in DOMAIN entry \ {name} |-> entry[k]]

\* The i-th entry malformed in the given way.
EntryOf(i, kind) ==
  LET e == GoodEntry(i)
  IN  CASE kind = "blank_title" -> [e EXCEPT !.title = <<" ", " ">>]
        [] kind = "empty_title" -> [e EXCEPT !.title = << >>]
        [] kind = "no_title"    -> Without(e, "title")
        [] kind = "blank_link"  -> [e EXCEPT !.link = <<" ">>]
        [] kind = "empty_link"  -> [e EXCEPT !.link = << >>]
        [] kind = "no_link"     -> Without(e, "link")
        [] kind = "padded"      ->
             [e EXCEPT !.title = <<" ", "t", " ">>,
                       !.link = <<" ">> \o e.link \o <<" ", " ">>]
        [] kind = "bad_date"    -> [e EXCEPT !.published = "garbage"]
        [] kind = "no_date"     -> Without(e, "published")
        [] kind = "no_summary"  -> Without(e, "summary")
        [] OTHER                -> e

\* A document of n entries, all well-formed but those at positions j and k.
Doc(n, j, jkind, k, kkind) ==
  [i \in 1..n |-> IF i = j THEN EntryOf(i, jkind)
                  ELSE IF i = k THEN EntryOf(i, kkind) ELSE GoodEntry(i)]

(***************************************************************************)
(* Parameters and dictionaries.                                            *)
(***************************************************************************)
\* max_feeds: Optional[int]
None == [given |-> FALSE, n |-> 0]

Given(n) == [given |-> TRUE, n |-> n]

\* Python truth value of an Optional[int]: None and 0 are false.
Truthy(mf) == mf.given /\ mf.n # 0

\* seq[:n], with Python's meaning of a negative n.
PySlice(seq, n) ==
  IF n >= 0 THEN SubSeq(seq, 1, IF n < Len(seq) THEN n ELSE Len(seq))
  ELSE SubSeq(seq, 1, IF Len(seq) + n > 0 THEN Len(seq) + n ELSE 0)

\* feeds_to_process = FEEDS[:max_feeds] if max_feeds else FEEDS
SelectFeeds(feeds, mf) == IF Truthy(mf) THEN PySlice(feeds, mf.n) ELSE feeds

\* The literal FEEDS, cut to n sources; a source is named by its position.
FeedList(n) == [i \in 1..n |-> [feed_url |-> i, source |-> i]]

\* self.stats = {} in __init__
EmptyDict == [k \in {} |-> 0]

\* The dictionary collect_all_news binds to self.stats when it starts.
FreshStats ==
  [total_processed |-> 0, total_inserted |-> 0, total_updated |-> 0,
   total_skipped |-> 0, failed_feeds |-> << >>, successful_feeds |-> << >>]

\* dict.update
Update(d, e) ==
  [k \in DOMAIN d \cup DOMAIN e |-> IF k \in DOMAIN e THEN e[k] ELSE d[k]]

\* dict.get(key, default)
Get(d, key, default) == IF key \in DOMAIN d THEN d[key] ELSE default

\* The links of a list of articles.
Links(articles) == {articles[i].link : i \in 1..Len(articles)}

\* list({article['link']: article for article in all_articles}.values()):
\* a dict keeps a key at the place of its first insertion and the value of
\* its last.
DedupeNone(all) == all

DedupeFirst(all) ==
  LET first == {i \in 1..Len(all) : \A j \in 1..(i-1) : all[j].link # all[i].link}
  IN  [k \in 1..Cardinality(first) |->
         all[CHOOSE i \in first : Cardinality({j \in first : j <= i}) = k]]

Dedupe(all) ==
  LET first == {i \in 1..Len(all) : \A j \in 1..(i-1) : all[j].link # all[i].link}
      last(l) == Max({j \in 1..Len(all) : all[j].link = l})
      RECURSIVE values(_)
      values(i) == IF i > Len(all) THEN << >>
                   ELSE IF i \in first THEN <<all[last(all[i].link)]>> \o values(i+1)
                   ELSE values(i+1)
  IN  values(1)

\* database.db.insert_article, as the collector consumes it: idempotent on
\* link, True when the article was inserted, False when the link is already
\* stored; it may raise, and then stores nothing.
InsertArticle(store, article, fault) ==
  IF fault THEN [outcome |-> "raised", store |-> store]
  ELSE IF article.link \in store THEN [outcome |-> "skipped", store |-> store]
  ELSE [outcome |-> "inserted", store |-> store \cup {article.link}]

\* The body of the loop of save_articles for one outcome of insert_article.
SaveStepNoExcept(st, outcome) ==
  CASE outcome = "inserted" -> [st EXCEPT !.inserted = @ + 1]
    [] outcome = "skipped"  -> [st EXCEPT !.skipped = @ + 1]
    [] OTHER                -> st

SaveStepAllInserted(st, outcome) ==
  CASE outcome = "raised" -> [st EXCEPT !.skipped = @ + 1]
    [] OTHER              -> [st EXCEPT !.inserted = @ + 1]

SaveStep(st, outcome) ==
  CASE outcome = "inserted" -> [st EXCEPT !.inserted = @ + 1]
    [] outcome = "skipped"  -> [st EXCEPT !.skipped = @ + 1]
    [] OTHER                -> [st EXCEPT !.skipped = @ + 1]

\* What feedparser.parse can give a fetch of a full run.
ParseRaises == [raises |-> TRUE, entries |-> << >>]

NoEntries == [raises |-> FALSE, entries |-> << >>]

MainOutcomes ==
  {ParseRaises, NoEntries,
   [raises |-> FALSE, entries |-> <<GoodEntry(1)>>],
   [raises |-> FALSE,
    entries |-> <<EntryOf(2, "padded"), GoodEntry(1),
                  EntryOf(3, "blank_title"), GoodEntry(2)>>]}

PoolOutcomes == {NoEntries}

\* A feed failed when its fetch raised or its document had no entries.
Failed(p) == p.raises \/ p.entries = << >>

(***************************************************************************)
(* backend/keyword_maker.py.  A string is the sequence of its characters;  *)
(* a character outside ASCII is written as its code point, "U+BE14".       *)
(* Line 33 of the file reads  "won't', 'would', "wouldn't",  which does    *)
(* not tokenize: the module as written fails to compile.  The literal is   *)
(* read here with the quotes paired, "won't", 'would', "wouldn't".         *)
(***************************************************************************)
\* Most keywords extract_keywords and extract_simple_keywords return.
KeywordCap == 8

UpperCase ==
  <<"A", "B", "C", "D", "E", "F", "G", "H", "I", "J", "K", "L", "M", "N",
    "O", "P", "Q", "R", "S", "T", "U", "V", "W", "X", "Y", "Z">>

LowerCase ==
  <<"a", "b", "c", "d", "e", "f", "g", "h", "i", "j", "k", "l", "m", "n",
    "o", "p", "q", "r", "s", "t", "u", "v", "w", "x", "y", "z">>

LowerChar(c) ==
  IF \E i \in 1..Len(UpperCase) : UpperCase[i] = c
  THEN LowerCase[CHOOSE i \in 1..Len(UpperCase) : UpperCase[i] = c]
  ELSE c

\* str.lower()
Lower(s) == [i \in 1..Len(s) |-> LowerChar(s[i])]

\* t in s, for strings
Contains(s, t) ==
  \E i \in 0..(Len(s) - Len(t)) : \A j \in 1..Len(t) : s[i + j] = t[j]

\* s.split(sep), for a separator of one character
RECURSIVE Split(_, _)
Split(s, sep) ==
  IF \A i \in 1..Len(s) : s[i] # sep
  THEN <<s>>
  ELSE LET i == Min({j \in 1..Len(s) : s[j] = sep})
       IN  <<SubSeq(s, 1, i - 1)>> \o Split(SubSeq(s, i + 1, Len(s)), sep)

\* The literal of STOP_WORDS
StopWordList ==
  {<<"U+C774">>, <<"U+C788">>, <<"U+D558">>, <<"U+AC83">>, <<"U+B4E4">>,
   <<"U+ADF8">>, <<"U+B418">>, <<"U+C218">>, <<"U+BCF4">>, <<"U+C54A">>,
   <<"U+C5C6">>, <<"U+B098">>, <<"U+C0AC", "U+B78C">>, <<"U+C8FC">>,
   <<"U+C544", "U+B2C8">>, <<"U+B4F1">>, <<"U+AC19">>,
   <<"U+C6B0", "U+B9AC">>, <<"U+B54C">>, <<"U+B144">>, <<"U+AC00">>,
   <<"U+D55C">>, <<"U+C9C0">>, <<"U+B300", "U+D558">>, <<"U+C624">>,
   <<"U+B9D0">>, <<"U+C77C">>, <<"U+ADF8", "U+B807">>,
   <<"U+C704", "U+D558">>, <<"U+B54C", "U+BB38">>, <<"U+ADF8", "U+AC83">>,
   <<"U+B450">>, <<"U+B9D0", "U+D558">>, <<"U+C54C">>,
   <<"U+ADF8", "U+B7EC", "U+B098">>, <<"U+ADF8", "U+B7F0", "U+B370">>,
   <<"U+ADF8", "U+B798", "U+C11C">>, <<"U+ADF8", "U+B9AC", "U+ACE0">>,
   <<"U+B610">>, <<"U+B354">>, <<"U+AC1C">>, <<"U+C870">>, <<"U+C5B5">>,
   <<"U+C6D0">>, <<"U+B2EC", "U+B7EC">>, <<"U+B9CC">>, <<"U+BA85">>,
   <<"U+C704">>, <<"U+C6D4">>, <<"U+C2DC", "U+AC04">>, <<"U+BD84">>,
   <<"U+CD08">>, <<"U+B274", "U+C2A4">>, <<"U+AE30", "U+C0AC">>,
   <<"U+C18D", "U+BCF4">>, <<"U+B2E8", "U+B3C5">>, <<"U+C885", "U+D569">>,
   <<"U+C0AC", "U+C9C4">>, <<"U+C601", "U+C0C1">>,
   <<"U+D5E4", "U+B7F4", "U+B4DC">>, <<"U+ACBD", "U+C81C">>,
   <<"U+CF54", "U+B9AC", "U+C544">>,
   <<"U+C544", "U+C774", "U+B274", "U+C2A4", "2", "4">>,
   <<"U+C804", "U+C790", "U+C2E0", "U+BB38">>,
   <<"U+C9C0", "U+B514", "U+B137">>,
   <<"U+B514", "U+C9C0", "U+D138", "U+B370", "U+C77C", "U+B9AC">>,
   <<"U+BE14", "U+B85C", "U+D130">>, <<"U+C528", "U+B137">>, <<"i", "t">>,
   <<"a">>, <<"a", "b", "o", "u", "t">>, <<"a", "b", "o", "v", "e">>,
   <<"a", "f", "t", "e", "r">>, <<"a", "g", "a", "i", "n">>,
   <<"a", "g", "a", "i", "n", "s", "t">>, <<"a", "l", "l">>, <<"a", "m">>,
   <<"a", "n">>, <<"a", "n", "d">>, <<"a", "n", "y">>, <<"a", "r", "e">>,
   <<"a", "r", "e", "n", "'", "t">>, <<"a", "s">>, <<"a", "t">>,
   <<"b", "e">>, <<"b", "e", "c", "a", "u", "s", "e">>,
   <<"b", "e", "e", "n">>, <<"b", "e", "f", "o", "r", "e">>,
   <<"b", "e", "i", "n", "g">>, <<"b", "e", "l", "o", "w">>,
   <<"b", "e", "t", "w", "e", "e", "n">>, <<"b", "o", "t", "h">>,
   <<"b", "u", "t">>, <<"b", "y">>, <<"c", "a", "n">>,
   <<"c", "a", "n", "'", "t">>, <<"c", "a", "n", "n", "o", "t">>,
   <<"c", "o", "u", "l", "d">>, <<"c", "o", "u", "l", "d", "n", "'", "t">>,
   <<"d", "i", "d">>, <<"d", "i", "d", "n", "'", "t">>, <<"d", "o">>,
   <<"d", "o", "e", "s">>, <<"d", "o", "e", "s", "n", "'", "t">>,
   <<"d", "o", "i", "n", "g">>, <<"d", "o", "n", "'", "t">>,
   <<"d", "o", "w", "n">>, <<"d", "u", "r", "i", "n", "g">>,
   <<"e", "a", "c", "h">>, <<"f", "e", "w">>, <<"f", "o", "r">>,
   <<"f", "r", "o", "m">>, <<"f", "u", "r", "t", "h", "e", "r">>,
   <<"h", "a", "d">>, <<"h", "a", "d", "n", "'", "t">>, <<"h", "a", "s">>,
   <<"h", "a", "s", "n", "'", "t">>, <<"h", "a", "v", "e">>,
   <<"h", "a", "v", "e", "n", "'", "t">>, <<"h", "a", "v", "i", "n", "g">>,
   <<"h", "e">>, <<"h", "e", "'", "d">>, <<"h", "e", "'", "l", "l">>,
   <<"h", "e", "'", "s">>, <<"h", "e", "r">>, <<"h", "e", "r", "e">>,
   <<"h", "e", "r", "e", "'", "s">>, <<"h", "e", "r", "s">>,
   <<"h", "e", "r", "s", "e", "l", "f">>, <<"h", "i", "m">>,
   <<"h", "i", "m", "s", "e", "l", "f">>, <<"h", "i", "s">>,
   <<"h", "o", "w">>, <<"h", "o", "w", "'", "s">>, <<"i">>,
   <<"i", "'", "d">>, <<"i", "'", "l", "l">>, <<"i", "'", "m">>,
   <<"i", "'", "v", "e">>, <<"i", "f">>, <<"i", "n">>,
   <<"i", "n", "t", "o">>, <<"i", "s">>, <<"i", "s", "n", "'", "t">>,
   <<"i", "t", "'", "s">>, <<"i", "t", "s">>,
   <<"i", "t", "s", "e", "l", "f">>, <<"l", "e", "t", "'", "s">>,
   <<"m", "e">>, <<"m", "o", "r", "e">>, <<"m", "o", "s", "t">>,
   <<"m", "u", "s", "t", "n", "'", "t">>, <<"m", "y">>,
   <<"m", "y", "s", "e", "l", "f">>, <<"n", "o">>, <<"n", "o", "r">>,
   <<"n", "o", "t">>, <<"o", "f">>, <<"o", "f", "f">>, <<"o", "n">>,
   <<"o", "n", "c", "e">>, <<"o", "n", "l", "y">>, <<"o", "r">>,
   <<"o", "t", "h", "e", "r">>, <<"o", "u", "g", "h", "t">>,
   <<"o", "u", "r">>, <<"o", "u", "r", "s">>,
   <<"o", "u", "r", "s", "e", "l", "v", "e", "s">>, <<"o", "u", "t">>,
   <<"o", "v", "e", "r">>, <<"o", "w", "n">>, <<"s", "a", "m", "e">>,
   <<"s", "h", "a", "n", "'", "t">>, <<"s", "h", "e">>,
   <<"s", "h", "e", "'", "d">>, <<"s", "h", "e", "'", "l", "l">>,
   <<"s", "h", "e", "'", "s">>, <<"s", "h", "o", "u", "l", "d">>,
   <<"s", "h", "o", "u", "l", "d", "n", "'", "t">>, <<"s", "o">>,
   <<"s", "o", "m", "e">>, <<"s", "u", "c", "h">>, <<"t", "h", "a", "n">>,
   <<"t", "h", "a", "t">>, <<"t", "h", "a", "t", "'", "s">>,
   <<"t", "h", "e">>, <<"t", "h", "e", "i", "r">>,
   <<"t", "h", "e", "i", "r", "s">>, <<"t", "h", "e", "m">>,
   <<"t", "h", "e", "m", "s", "e", "l", "v", "e", "s">>,
   <<"t", "h", "e", "n">>, <<"t", "h", "e", "r", "e">>,
   <<"t", "h", "e", "r", "e", "'", "s">>, <<"t", "h", "e", "s", "e">>,
   <<"t", "h", "e", "y">>, <<"t", "h", "e", "y", "'", "d">>,
   <<"t", "h", "e", "y", "'", "l", "l">>,
   <<"t", "h", "e", "y", "'", "r", "e">>,
   <<"t", "h", "e", "y", "'", "v", "e">>, <<"t", "h", "i", "s">>,
   <<"t", "h", "o", "s", "e">>, <<"t", "h", "r", "o", "u", "g", "h">>,
   <<"t", "o">>, <<"t", "o", "o">>, <<"u", "n", "d", "e", "r">>,
   <<"u", "n", "t", "i", "l">>, <<"u", "p">>, <<"v", "e", "r", "y">>,
   <<"w", "a", "s">>, <<"w", "a", "s", "n", "'", "t">>, <<"w", "e">>,
   <<"w", "e", "'", "d">>, <<"w", "e", "'", "l", "l">>,
   <<"w", "e", "'", "r", "e">>, <<"w", "e", "'", "v", "e">>,
   <<"w", "e", "r", "e">>, <<"w", "e", "r", "e", "n", "'", "t">>,
   <<"w", "h", "a", "t">>, <<"w", "h", "a", "t", "'", "s">>,
   <<"w", "h", "e", "n">>, <<"w", "h", "e", "n", "'", "s">>,
   <<"w", "h", "e", "r", "e">>, <<"w", "h", "e", "r", "e", "'", "s">>,
   <<"w", "h", "i", "c", "h">>, <<"w", "h", "i", "l", "e">>,
   <<"w", "h", "o">>, <<"w", "h", "o", "'", "s">>, <<"w", "h", "o", "m">>,
   <<"w", "h", "y">>, <<"w", "h", "y", "'", "s">>, <<"w", "i", "t", "h">>,
   <<"w", "o", "n", "'", "t">>, <<"w", "o", "u", "l", "d">>,
   <<"w", "o", "u", "l", "d", "n", "'", "t">>, <<"y", "o", "u">>,
   <<"y", "o", "u", "'", "d">>, <<"y", "o", "u", "'", "l", "l">>,
   <<"y", "o", "u", "'", "r", "e">>, <<"y", "o", "u", "'", "v", "e">>,
   <<"y", "o", "u", "r">>, <<"y", "o", "u", "r", "s">>,
   <<"y", "o", "u", "r", "s", "e", "l", "f">>,
   <<"y", "o", "u", "r", "s", "e", "l", "v", "e", "s">>,
   <<"n", "e", "w", "s">>, <<"a", "r", "t", "i", "c", "l", "e">>,
   <<"r", "e", "p", "o", "r", "t">>, <<"i", "n", "c">>, <<"l", "t", "d">>,
   <<"c", "o">>, <<"l", "l", "c">>}

\* STOP_WORDS = set(word.lower() for word in STOP_WORDS)
STOP_WORDS == {Lower(w) : w \in StopWordList}

tech_terms ==
  <<<<"A", "I">>, <<"U+C778", "U+ACF5", "U+C9C0", "U+B2A5">>,
   <<"U+BA38", "U+C2E0", "U+B7EC", "U+B2DD">>,
   <<"U+B525", "U+B7EC", "U+B2DD">>, <<"U+BC18", "U+B3C4", "U+CCB4">>,
   <<"5", "G">>, <<"6", "G">>, <<"I", "o", "T">>,
   <<"U+D074", "U+B77C", "U+C6B0", "U+B4DC">>,
   <<"U+BE45", "U+B370", "U+C774", "U+D130">>,
   <<"U+BE14", "U+B85D", "U+CCB4", "U+C778">>,
   <<"U+BA54", "U+D0C0", "U+BC84", "U+C2A4">>, <<"V", "R">>, <<"A", "R">>,
   <<"U+B85C", "U+BD07">>, <<"U+C790", "U+B3D9", "U+D654">>,
   <<"U+C2A4", "U+B9C8", "U+D2B8", "U+D329", "U+D1A0", "U+B9AC">>,
   <<"U+B514", "U+C9C0", "U+D138", "U+C804", "U+D658">>, <<"D", "X">>,
   <<"U+D540", "U+D14C", "U+D06C">>, <<"U+C804", "U+AE30", "U+CC28">>,
   <<"U+C790", "U+C728", "U+C8FC", "U+D589">>,
   <<"U+BC30", "U+D130", "U+B9AC">>, <<"U+D0DC", "U+C591", "U+AD11">>,
   <<"U+D48D", "U+B825">>, <<"U+C218", "U+C18C">>,
   <<"U+C591", "U+C790", "U+CEF4", "U+D4E8", "U+D305">>,
   <<"U+C0AC", "U+C774", "U+BC84", "U+BCF4", "U+C548">>,
   <<"U+D574", "U+D0B9">>, <<"U+B79C", "U+C12C", "U+C6E8", "U+C5B4">>,
   <<"U+AC1C", "U+C778", "U+C815", "U+BCF4", "U+BCF4", "U+D638">>,
   <<"U+C2A4", "U+D0C0", "U+D2B8", "U+C5C5">>,
   <<"U+C720", "U+B2C8", "U+CF58">>,
   <<"U+BCA4", "U+CC98", "U+CE90", "U+D53C", "U+D0C8">>, <<"I", "P", "O">>,
   <<"M", "&", "A">>>>

\* OPENAI_API_KEY = os.getenv("OPENAI_API_KEY")
NoKey == [given |-> FALSE, value |-> << >>]

Key(v) == [given |-> TRUE, value |-> v]

\* not OPENAI_API_KEY
KeyMissing(key) == ~key.given \/ key.value = << >>

\* k.lower() not in STOP_WORDS and len(k) > 1
KeepKeyword(k) == Lower(k) \notin STOP_WORDS /\ Len(k) > 1

\* filtered_keywords = [k for k in keywords if ...]
FilterNone(keywords) == keywords

FilterKeywords(keywords) == SelectSeq(keywords, KeepKeyword)

\* filtered_keywords[:8]
FirstKeywords(keywords) == SubSeq(keywords, 1, Min({Len(keywords), KeywordCap}))

\* The terms of tech_terms that occur in the text, in the order of the list.
MatchedTerms(text) ==
  LET text_lower == Lower(text)
  IN  SelectSeq(tech_terms, LAMBDA term : Contains(text_lower, Lower(term)))

extract_simple_keywords(text) ==
  FirstKeywords(FilterKeywords(MatchedTerms(text)))

\* [k.strip() for k in keywords_text.split(',') if k.strip()]
RawKeywords(keywords_text) ==
  LET parts    == Split(keywords_text, ",")
      stripped == [i \in 1..Len(parts) |-> Strip(parts[i])]
  IN  SelectSeq(stripped, LAMBDA k : k # << >>)

\* The try block of extract_keywords, the remote call having answered.
RemoteKeywords(content) ==
  FirstKeywords(FilterKeywords(RawKeywords(Strip(content))))

\* extract_keywords(text): what it returns, or that it raised.
extract_keywords(text, key, remote) ==
  IF text = << >> \/ KeyMissing(key)
  THEN [raised |-> FALSE, value |-> << >>]
  ELSE IF remote.raises
       THEN [raised |-> FALSE, value |-> extract_simple_keywords(text)]
       ELSE [raised |-> FALSE, value |-> RemoteKeywords(remote.content)]

VARIABLES
  FEEDS,             \* the configured sources
  db,                \* the links the database stores
  stats,             \* collector.stats
  runNo,             \* the number of runs started
  pc,                \* where collect_all_news is
  max_feeds,         \* its argument
  feeds_to_process,
  submitted,         \* how many fetches executor.submit has queued
  started,           \* how many of them a worker has taken off the queue
  threads,           \* worker threads of the pool
  status,            \* per fetch task: "new", "queued", "running", "done"
  parse,             \* per fetch task: what feedparser.parse gave
  result,            \* per fetch task: what collect_from_feed returned
  gathered,          \* the tasks whose result as_completed has handed over
  all_articles,
  unique_articles,
  save_i,            \* the article save_articles is at
  save_stats,        \* its local stats
  calls,             \* the calls of insert_article of the run, with outcome
  prev_calls,        \* those of the run before it
  ret,               \* what the run returned
  seen,              \* the links handed to insert_article in any run
  inserted_sum,      \* the sum of the inserted counts the runs returned
  fpc, fdoc, fout,   \* a call of collect_from_feed on its own
  kpc,               \* where a call of extract_keywords is
  ktext,             \* its argument
  kkey,              \* OPENAI_API_KEY
  kremote,           \* what the chat completion call does
  kout,              \* what extract_keywords returned
  server,            \* the application: "starting" or "started"
  db_init,           \* db.init_database(): "pending", "ok" or "failed"
  o_heap,            \* two overlapping runs: the stats dictionaries made
  o_self,            \* which of them collector.stats is bound to
  o_db,              \* the links the database stores
  o_pc,              \* per run: where collect_all_news is
  o_unique,          \* per run: unique_articles
  o_i,               \* per run: the article save_articles is at
  o_local,           \* per run: the local stats of save_articles
  o_calls,           \* per run: its calls of insert_article, with outcome
  o_ret              \* per run: which dictionary it returned as 'stats'

rvars == <<FEEDS, db, stats, runNo, pc, max_feeds, feeds_to_process,
           submitted, started, threads, status, parse, result,
           gathered, all_articles, unique_articles, save_i, save_stats,
           calls, prev_calls, ret, seen, inserted_sum>>

fvars == <<fpc, fdoc, fout>>

kvars == <<kpc, ktext, kkey, kremote, kout>>

svars == <<server, db_init>>

ovars == <<o_heap, o_self, o_db, o_pc, o_unique, o_i, o_local, o_calls, o_ret>>

xvars == <<kvars, svars, ovars>>

vars == <<rvars, fvars, xvars>>

\* No call of extract_keywords is under way.
KeywordIdle ==
  /\ kpc = "idle"
  /\ ktext = << >>
  /\ kkey = NoKey
  /\ kremote = [raises |-> TRUE, content |-> << >>]
  /\ kout = [raised |-> FALSE, value |-> << >>]

\* startup_event has run and the database was initialized.
StartupDone == server = "started" /\ db_init = "ok"

\* The two runs that overlap.
Runs == {1, 2}

\* The collector after construction; no run has begun.
OverlapIdle ==
  /\ o_heap = <<EmptyDict>>
  /\ o_self = 1
  /\ o_db = {}
  /\ o_pc = [r \in Runs |-> "idle"]
  /\ o_unique = [r \in Runs |-> << >>]
  /\ o_i = [r \in Runs |-> 1]
  /\ o_local = [r \in Runs |-> [inserted |-> 0, updated |-> 0, skipped |-> 0]]
  /\ o_calls = [r \in Runs |-> << >>]
  /\ o_ret = [r \in Runs |-> 0]

ExtraIdle == KeywordIdle /\ StartupDone /\ OverlapIdle

Tasks == 1..Len(feeds_to_process)

Running == {t \in Tasks : status[t] = "running"}

NoResult == [raised |-> FALSE, value |-> << >>]

NewSaveStats == [inserted |-> 0, updated |-> 0, skipped |-> 0]

NoReturn == [kind |-> "none", stats |-> EmptyDict]

\* The value collect_all_news returns (its duration left out).
Returned(st) == [kind |-> "returned", stats |-> st]

\* The collector after construction, with n configured sources.
RunInit(n) ==
  /\ FEEDS = FeedList(n)
  /\ db = {}
  /\ stats = EmptyDict
  /\ runNo = 0
  /\ pc = "idle"
  /\ max_feeds = None
  /\ feeds_to_process = << >>
  /\ submitted = 0
  /\ started = 0
  /\ threads = 0
  /\ status = << >>
  /\ parse = << >>
  /\ result = << >>
  /\ gathered = {}
  /\ all_articles = << >>
  /\ unique_articles = << >>
  /\ save_i = 1
  /\ save_stats = NewSaveStats
  /\ calls = << >>
  /\ prev_calls = << >>
  /\ ret = NoReturn
  /\ seen = {}
  /\ inserted_sum = 0

FetchIdle == fpc = "idle" /\ fdoc = << >> /\ fout = << >>

\* collect_all_news, lines 80-97: a fresh stats dictionary, the selection of
\* the feeds, the executor.
StartRun(mf) ==
  /\ pc \in {"idle", "returned", "raised"}
  /\ runNo < MaxRuns
  /\ runNo' = runNo + 1
  /\ max_feeds' = mf
  /\ stats' = FreshStats
  /\ feeds_to_process' = SelectFeeds(FEEDS, mf)
  /\ pc' = IF feeds_to_process' = << >> THEN "gathering" ELSE "submitting"
  /\ submitted' = 0 /\ started' = 0 /\ threads' = 0
  /\ status' = [t \in 1..Len(feeds_to_process') |-> "new"]
  /\ parse' = [t \in 1..Len(feeds_to_process') |-> NoEntries]
  /\ result' = [t \in 1..Len(feeds_to_process') |-> NoResult]
  /\ gathered' = {}
  /\ all_articles' = << >>
  /\ unique_articles' = << >>
  /\ save_i' = 1
  /\ save_stats' = NewSaveStats
  /\ prev_calls' = calls
  /\ calls' = << >>
  /\ ret' = NoReturn
  /\ UNCHANGED <<FEEDS, db, seen, inserted_sum, fvars, xvars>>

\* ThreadPoolExecutor._adjust_thread_count, called by each submit: a new
\* worker thread unless the pool is at its width.
SpawnAlways(n) == n + 1

Spawn(n) == IF n < max_workers THEN n + 1 ELSE n

RECURSIVE SpawnFor(_, _)
SpawnFor(k, n) == IF k = 0 THEN n ELSE SpawnFor(k - 1, Spawn(n))

\* futures = [executor.submit(self.collect_from_feed, feed) for feed in
\* feeds_to_process]: every fetch is queued, in the order of the list.
SubmitAll ==
  /\ pc = "submitting"
  /\ submitted' = Len(feeds_to_process)
  /\ status' = [t \in Tasks |-> "queued"]
  /\ threads' = SpawnFor(Len(feeds_to_process), threads)
  /\ pc' = "gathering"
  /\ UNCHANGED <<FEEDS, db, stats, runNo, max_feeds, feeds_to_process,
                 started, parse, result, gathered, all_articles,
                 unique_articles, save_i, save_stats, calls, prev_calls, ret,
                 seen, inserted_sum, fvars, xvars>>

\* A worker thread that runs no task takes the oldest queued one.
WorkerStart ==
  /\ started < submitted
  /\ Cardinality(Running) < threads
  /\ started' = started + 1
  /\ status' = [status EXCEPT ![started + 1] = "running"]
  /\ UNCHANGED <<FEEDS, db, stats, runNo, pc, max_feeds, feeds_to_process,
                 submitted, threads, parse, result, gathered,
                 all_articles, unique_articles, save_i, save_stats, calls,
                 prev_calls, ret, seen, inserted_sum, fvars, xvars>>

\* collect_from_feed runs to its end in the worker, on what the feed gave.
WorkerFinish(t, p) ==
  /\ t \in Tasks
  /\ status[t] = "running"
  /\ parse' = [parse EXCEPT ![t] = p]
  /\ result' = [result EXCEPT ![t] = CollectFromFeed(feeds_to_process[t], p)]
  /\ status' = [status EXCEPT ![t] = "done"]
  /\ UNCHANGED <<FEEDS, db, stats, runNo, pc, max_feeds, feeds_to_process,
                 submitted, started, threads, gathered, all_articles,
                 unique_articles, save_i, save_stats, calls, prev_calls, ret,
                 seen, inserted_sum, fvars, xvars>>

\* all_articles.extend(future.result())
ExtendOverwrite(all, value) == value

Extend(all, value) == all \o value

\* for future in as_completed(futures): all_articles.extend(future.result());
\* future.result() raises what the task raised, and the run ends raising.
Gather(t) ==
  /\ pc = "gathering"
  /\ t \in Tasks \ gathered
  /\ status[t] = "done"
  /\ gathered' = gathered \cup {t}
  /\ IF result[t].raised
     THEN /\ pc' = "raised"
          /\ ret' = [kind |-> "raised", stats |-> EmptyDict]
          /\ UNCHANGED all_articles
     ELSE /\ all_articles' = Extend(all_articles, result[t].value)
          /\ UNCHANGED <<pc, ret>>
  /\ UNCHANGED <<FEEDS, db, stats, runNo, max_feeds, feeds_to_process,
                 submitted, started, threads, status, parse, result,
                 unique_articles, save_i, save_stats, calls, prev_calls,
                 seen, inserted_sum, fvars, xvars>>

\* The end of the as_completed loop and of the with block: every future has
\* been handed over.
AllCompletedFirst == gathered # {} \/ Tasks = {}

AllCompleted == gathered = Tasks

\* Lines 103-111: the merge, and the return when there is nothing to save.
Merge ==
  /\ pc = "gathering"
  /\ AllCompleted
  /\ unique_articles' = Dedupe(all_articles)
  /\ IF unique_articles' # << >>
     THEN /\ pc' = "saving"
          /\ UNCHANGED ret
     ELSE /\ pc' = "returned"
          /\ ret' = Returned(stats)
  /\ UNCHANGED <<FEEDS, db, stats, runNo, max_feeds, feeds_to_process,
                 submitted, started, threads, status, parse, result,
                 gathered, all_articles, save_i, save_stats, calls,
                 prev_calls, seen, inserted_sum, fvars, xvars>>

\* One turn of the loop of save_articles; after the last article,
\* self.stats.update(save_stats) and the return.
Save(fault) ==
  /\ pc = "saving"
  /\ LET article == unique_articles[save_i]
         r == InsertArticle(db, article, fault)
     IN  /\ db' = r.store
         /\ calls' = Append(calls, [link |-> article.link, outcome |-> r.outcome])
         /\ seen' = seen \cup {article.link}
         /\ save_stats' = SaveStep(save_stats, r.outcome)
  /\ IF save_i = Len(unique_articles)
     THEN /\ stats' = Update(stats, save_stats')
          /\ ret' = Returned(stats')
          /\ inserted_sum' = inserted_sum + Get(stats', "inserted", 0)
          /\ pc' = "returned"
          /\ UNCHANGED save_i
     ELSE /\ save_i' = save_i + 1
          /\ UNCHANGED <<stats, ret, pc, inserted_sum>>
  /\ UNCHANGED <<FEEDS, runNo, max_feeds, feeds_to_process, submitted,
                 started, threads, status, parse, result, gathered,
                 all_articles, unique_articles, prev_calls, fvars, xvars>>

\* The values of max_feeds a request can carry.
MaxFeedsArgs == {None} \cup {Given(n) : n \in 0..(NumFeeds + 1)}

Init == RunInit(NumFeeds) /\ FetchIdle /\ ExtraIdle

Next ==
  \/ \E mf \in MaxFeedsArgs : StartRun(mf)
  \/ SubmitAll
  \/ WorkerStart
  \/ \E t \in 1..NumFeeds, p \in MainOutcomes : WorkerFinish(t, p)
  \/ \E t \in 1..NumFeeds : Gather(t)
  \/ Merge
  \/ \E fault \in BOOLEAN : Save(fault)

Spec == Init /\ [][Next]_vars

\* One call of collect_from_feed on a document of up to MaxEntries entries.
FetchInit ==
  /\ RunInit(NumFeeds)
  /\ ExtraIdle
  /\ fpc = "call"
  /\ fout = << >>
  /\ \E n \in 0..MaxEntries : \E j \in 1..(n+1), k \in 1..(n+1) :
       \E jkind \in Kinds, kkind \in {"good", "blank_title", "blank_link", "no_link", "bad_date"} :
         /\ j <= k
         /\ (j = k => kkind = "good")
         /\ fdoc = Doc(n, j, jkind, k, kkind)

FetchCall ==
  /\ fpc = "call"
  /\ fpc' = "returned"
  /\ fout' = CollectFromFeed([feed_url |-> 1, source |-> 1],
                             [raises |-> FALSE, entries |-> fdoc]).value
  /\ UNCHANGED <<fdoc, rvars, xvars>>

FetchNext == FetchCall

FetchSpec == FetchInit /\ [][FetchNext]_vars


(***************************************************************************)
(* The worker pool on its own: more sources than the pool is wide, every   *)
(* fetch finding no entries.  The as_completed loop of the main thread     *)
(* takes no part in the scheduling of the workers and is left out here.    *)
(***************************************************************************)
PoolInit == RunInit(PoolFeeds) /\ FetchIdle /\ ExtraIdle

PoolNext ==
  \/ StartRun(None)
  \/ SubmitAll
  \/ WorkerStart
  \/ \E t \in 1..PoolFeeds, p \in PoolOutcomes : WorkerFinish(t, p)

PoolSpec == PoolInit /\ [][PoolNext]_vars

\* A worker thread that is free takes the next queued task, and a fetch that
\* was started comes to its end.
FairPoolSpec ==
  /\ PoolSpec
  /\ WF_vars(SubmitAll)
  /\ WF_vars(WorkerStart)
  /\ \A t \in 1..PoolFeeds : WF_vars(\E p \in PoolOutcomes : WorkerFinish(t, p))

(***************************************************************************)
(* One call of extract_keywords.  The text is up to MaxWords words, or the *)
(* first terms of the vocabulary; the key is unset, empty or set; the      *)
(* remote call raises or answers with a comma-separated list.              *)
(***************************************************************************)
\* Words of a text the caller passes.
TextWords ==
  {<<"A", "I">>, <<"U+BE14", "U+B85D", "U+CCB4", "U+C778">>,
   <<"a", "r", "e">>, <<"t", "h", "e">>, <<"I", "t">>, <<"n", "e", "w", "s">>}

\* sep.join(words)
RECURSIVE Join(_, _)
Join(words, sep) ==
  IF words = << >> THEN << >>
  ELSE IF Len(words) = 1 THEN words[1]
  ELSE words[1] \o sep \o Join(Tail(words), sep)

Texts ==
  {Join(ws, <<" ">>) : ws \in UNION {[1..n -> TextWords] : n \in 0..MaxWords}}
    \cup {Join(SubSeq(tech_terms, 1, m), <<" ">>) : m \in 0..Len(tech_terms)}

Keys == {NoKey, Key(<< >>), Key(<<"s", "k">>)}

\* Keywords of an answer of the model, as it writes them.
ResponseKeywords ==
  <<<<"A", "I">>, <<" ", "T", "h", "e">>, <<"a">>, << >>,
    <<"c", "l", "o", "u", "d", " ">>, <<" ", "I", "T">>, <<"G", "P", "U">>,
    <<"U+C774">>, <<"L", "L", "M">>, <<"c", "h", "i", "p">>, <<" ", "5", "G">>,
    <<"r", "o", "b", "o", "t">>, <<"d", "a", "t", "a">>, <<"e", "d", "g", "e">>,
    <<"U+CE69">>>>

Remotes ==
  {[raises |-> TRUE, content |-> << >>]}
    \cup {[raises |-> FALSE,
           content |-> <<" ">> \o Join(SubSeq(ResponseKeywords, 1, b), <<",">>)]
            : b \in 0..Len(ResponseKeywords)}

KeywordInit ==
  /\ RunInit(NumFeeds)
  /\ FetchIdle
  /\ StartupDone
  /\ OverlapIdle
  /\ kpc = "call"
  /\ ktext \in Texts
  /\ kkey \in Keys
  /\ kremote \in Remotes
  /\ kout = [raised |-> FALSE, value |-> << >>]

KeywordCall ==
  /\ kpc = "call"
  /\ kpc' = "returned"
  /\ kout' = extract_keywords(ktext, kkey, kremote)
  /\ UNCHANGED <<ktext, kkey, kremote, rvars, fvars, svars, ovars>>

KeywordNext == KeywordCall

KeywordSpec == KeywordInit /\ [][KeywordNext]_vars

(***************************************************************************)
(* startup_event, and the requests the application serves once started.    *)
(***************************************************************************)
StartupInit ==
  /\ RunInit(NumFeeds)
  /\ FetchIdle
  /\ KeywordIdle
  /\ OverlapIdle
  /\ server = "starting"
  /\ db_init = "pending"

\* startup_event: db.init_database() in a try block whose except branch logs
\* the exception; the handler returns normally either way and the
\* application completes its startup.
Startup(fails) ==
  /\ server = "starting"
  /\ db_init' = IF fails THEN "failed" ELSE "ok"
  /\ server' = "started"
  /\ UNCHANGED <<rvars, fvars, kvars, ovars>>

\* POST /api/collect-news-now, served once the application has started.
collect_news_now(mf) == server = "started" /\ StartRun(mf)

StartupNext ==
  \/ \E fails \in BOOLEAN : Startup(fails)
  \/ collect_news_now(Given(1))
  \/ SubmitAll
  \/ WorkerStart
  \/ \E t \in 1..NumFeeds, p \in MainOutcomes : WorkerFinish(t, p)
  \/ \E t \in 1..NumFeeds : Gather(t)
  \/ Merge
  \/ \E fault \in BOOLEAN : Save(fault)

StartupSpec == StartupInit /\ [][StartupNext]_vars

(***************************************************************************)
(* Two runs of collect_all_news on the one collector, each on a thread of  *)
(* the default executor (run_in_executor).  self.stats is an attribute of  *)
(* the shared instance: a run binds it to a new dictionary at line 82 and  *)
(* reads it again at lines 108 and 111.  The fetches of a run touch only   *)
(* its locals and are one step here; each run takes one feed.              *)
(***************************************************************************)
OverlapInit ==
  /\ RunInit(NumFeeds)
  /\ FetchIdle
  /\ KeywordIdle
  /\ StartupDone
  /\ OverlapIdle

\* Line 82: self.stats = {...}
OStart(r) ==
  /\ o_pc[r] = "idle"
  /\ o_heap' = Append(o_heap, FreshStats)
  /\ o_self' = Len(o_heap) + 1
  /\ o_pc' = [o_pc EXCEPT ![r] = "fetch"]
  /\ UNCHANGED <<o_db, o_unique, o_i, o_local, o_calls, o_ret>>
  /\ UNCHANGED <<rvars, fvars, kvars, svars>>

\* Lines 95-105: the fetch of the selected feed, the merge, and the test of
\* unique_articles.
OFetch(r, p) ==
  /\ o_pc[r] = "fetch"
  /\ o_unique' = [o_unique EXCEPT
                    ![r] = Dedupe(Extend(<< >>,
                                   CollectFromFeed(FeedList(1)[1], p).value))]
  /\ o_pc' = [o_pc EXCEPT ![r] = IF o_unique'[r] # << >> THEN "save" ELSE "return"]
  /\ UNCHANGED <<o_heap, o_self, o_db, o_i, o_local, o_calls, o_ret>>
  /\ UNCHANGED <<rvars, fvars, kvars, svars>>

\* One turn of the loop of save_articles.
OSave(r, fault) ==
  /\ o_pc[r] = "save"
  /\ LET article == o_unique[r][o_i[r]]
         res == InsertArticle(o_db, article, fault)
     IN  /\ o_db' = res.store
         /\ o_calls' = [o_calls EXCEPT
                          ![r] = Append(@, [link |-> article.link,
                                            outcome |-> res.outcome])]
         /\ o_local' = [o_local EXCEPT ![r] = SaveStep(@, res.outcome)]
  /\ IF o_i[r] = Len(o_unique[r])
     THEN o_pc' = [o_pc EXCEPT ![r] = "update"] /\ UNCHANGED o_i
     ELSE o_i' = [o_i EXCEPT ![r] = @ + 1] /\ UNCHANGED o_pc
  /\ UNCHANGED <<o_heap, o_self, o_unique, o_ret>>
  /\ UNCHANGED <<rvars, fvars, kvars, svars>>

\* Line 108: self.stats.update(save_stats)
OUpdate(r) ==
  /\ o_pc[r] = "update"
  /\ o_heap' = [o_heap EXCEPT ![o_self] = Update(@, o_local[r])]
  /\ o_pc' = [o_pc EXCEPT ![r] = "return"]
  /\ UNCHANGED <<o_self, o_db, o_unique, o_i, o_local, o_calls, o_ret>>
  /\ UNCHANGED <<rvars, fvars, kvars, svars>>

\* Line 111: return {..., 'stats': self.stats}
OReturn(r) ==
  /\ o_pc[r] = "return"
  /\ o_ret' = [o_ret EXCEPT ![r] = o_self]
  /\ o_pc' = [o_pc EXCEPT ![r] = "returned"]
  /\ UNCHANGED <<o_heap, o_self, o_db, o_unique, o_i, o_local, o_calls>>
  /\ UNCHANGED <<rvars, fvars, kvars, svars>>

OverlapNext ==
  \/ \E r \in Runs : OStart(r)
  \/ \E r \in Runs, p \in MainOutcomes : OFetch(r, p)
  \/ \E r \in Runs, fault \in BOOLEAN : OSave(r, fault)
  \/ \E r \in Runs : OUpdate(r)
  \/ \E r \in Runs : OReturn(r)

OverlapSpec == OverlapInit /\ [][OverlapNext]_vars

(***************************************************************************)
(* The claims.                                                             *)
(***************************************************************************)
CallLinks(cs) == {cs[i].link : i \in 1..Len(cs)}

Sources(feeds) == [t \in 1..Len(feeds) |-> feeds[t].source]

\* C1: a run never raises, and a run in which every selected feed failed
\* returns stats with inserted = 0 and failed_feeds = the selected feeds.
C1_AllFailedRun ==
  /\ pc # "raised"
  /\ (pc = "returned" /\ \A t \in Tasks : Failed(parse[t]))
       => /\ ret.kind = "returned"
          /\ Get(ret.stats, "inserted", 0) = 0
          /\ Get(ret.stats, "failed_feeds", << >>) = Sources(feeds_to_process)

\* C2: collect_from_feed never raises, a feed whose fetch failed contributes
\* the empty list, and the articles of the other feeds of the run are merged
\* and handed to insert_article.
C2_FeedIsolation ==
  /\ pc # "raised"
  /\ \A t \in Tasks : status[t] = "done" =>
       /\ ~result[t].raised
       /\ Failed(parse[t]) => result[t].value = << >>
  /\ pc \in {"saving", "returned"} =>
       \A t \in Tasks : Links(result[t].value) \subseteq Links(unique_articles)
  /\ pc = "returned" => Links(unique_articles) \subseteq CallLinks(calls)

C2_Witness ==
  /\ pc = "returned"
  /\ \E t \in Tasks, u \in Tasks :
       /\ parse[t].raises
       /\ result[t].value = << >>
       /\ result[u].value # << >>
  /\ calls # << >>

\* C3: the merged list holds exactly one article per link of the per-feed
\* lists, each one an article of those lists, and no other link.
C3_Dedup ==
  pc \in {"saving", "returned"} =>
    /\ Links(unique_articles) = UNION {Links(result[t].value) : t \in Tasks}
    /\ Cardinality(Links(unique_articles)) = Len(unique_articles)
    /\ \A i \in 1..Len(unique_articles) :
         \E t \in Tasks : \E j \in 1..Len(result[t].value) :
           result[t].value[j] = unique_articles[i]

C3_Witness ==
  /\ pc = "saving"
  /\ \E t \in Tasks, u \in Tasks :
       /\ t # u
       /\ Links(result[t].value) \cap Links(result[u].value) # {}
       /\ Cardinality(Links(result[t].value)) < Len(result[t].value)
  /\ Len(unique_articles) < Len(all_articles)

C5_Barrier ==
  (pc \in {"saving", "returned"} \/ unique_articles # << >> \/ calls # << >>)
    => \A t \in Tasks : status[t] = "done" /\ t \in gathered

C5_Witness ==
  /\ pc = "saving"
  /\ Len(feeds_to_process) >= 2
  /\ calls # << >>

\* C6: save_articles calls insert_article once per article, in order, also
\* after a call that raised; a raised call counts as skipped, and
\* inserted + skipped is the number of articles.
Count(cs, outcomes) == Cardinality({i \in 1..Len(cs) : cs[i].outcome \in outcomes})

C6_SaveIsolation ==
  /\ pc = "saving" =>
       /\ Len(calls) = save_i - 1
       /\ save_stats.inserted + save_stats.skipped = Len(calls)
  /\ (pc = "returned" /\ unique_articles # << >>) =>
       /\ Len(calls) = Len(unique_articles)
       /\ \A i \in 1..Len(calls) : calls[i].link = unique_articles[i].link
       /\ save_stats.inserted + save_stats.skipped = Len(unique_articles)
       /\ save_stats.inserted = Count(calls, {"inserted"})
       /\ save_stats.skipped = Count(calls, {"skipped", "raised"})

C6_Witness ==
  /\ pc = "returned"
  /\ Len(calls) = 2
  /\ calls[1].outcome = "raised"
  /\ calls[2].outcome = "inserted"

\* C7, as stated: a link handed to insert_article in two runs in a row has
\* exactly one inserted and one not inserted outcome; the inserted counts of
\* the runs sum to at most the number of distinct links.
C7_ExactlyOneInsert ==
  /\ inserted_sum <= Cardinality(seen)
  /\ pc = "returned" =>
       \A i \in 1..Len(prev_calls), j \in 1..Len(calls) :
         prev_calls[i].link = calls[j].link =>
           Cardinality({k \in {1, 2} :
             <<prev_calls[i].outcome, calls[j].outcome>>[k] = "inserted"}) = 1

\* C7, amended: a link is inserted at most once - once a call for it
\* returned true or false, no later run inserts it - and the inserted counts
\* of the runs sum to at most the number of distinct links.
C7_AtMostOneInsert ==
  /\ inserted_sum <= Cardinality(seen)
  /\ \A i \in 1..Len(prev_calls), j \in 1..Len(calls) :
       prev_calls[i].link = calls[j].link =>
         /\ prev_calls[i].outcome \in {"inserted", "skipped"}
              => calls[j].outcome \in {"skipped", "raised"}
         /\ calls[j].outcome = "inserted" => prev_calls[i].outcome = "raised"

C7_Witness ==
  /\ pc = "returned"
  /\ \E i \in 1..Len(prev_calls), j \in 1..Len(calls) :
       /\ prev_calls[i].link = calls[j].link
       /\ prev_calls[i].outcome = "inserted"
       /\ calls[j].outcome = "skipped"
  /\ inserted_sum = Cardinality(seen)

\* C8: with a limit the run dispatches the first min(max_feeds, number of
\* sources) sources, without one every source.
C8_Selection ==
  pc # "idle" =>
    /\ feeds_to_process =
         IF max_feeds.given
         THEN SubSeq(FEEDS, 1, IF max_feeds.n < Len(FEEDS) THEN max_feeds.n
                               ELSE Len(FEEDS))
         ELSE FEEDS
    /\ pc \notin {"submitting"} => \A t \in Tasks : status[t] # "new"

\* Whether a string is empty after trimming.
IsBlank(s) == \A i \in 1..Len(s) : s[i] \in Whitespace

Skipped(entry) ==
  IsBlank(GetAttr(entry, "title", NoTitle)) \/ IsBlank(GetAttr(entry, "link", << >>))

\* C9: collect_from_feed returns at most 15 articles, each built from one of
\* the first 15 entries; no entry after the 15th is emitted.
C9_EntryCap ==
  fpc = "returned" =>
    /\ Len(fout) <= EntryCap
    /\ \A a \in 1..Len(fout) :
         \E i \in 1..Len(fdoc) :
           /\ i <= EntryCap
           /\ fout[a].link = GoodEntry(i).link
    /\ \A i \in 1..Len(fdoc) :
         i > EntryCap => GoodEntry(i).link \notin Links(fout)

C9_Witness ==
  /\ fpc = "returned"
  /\ Len(fdoc) > EntryCap + 1
  /\ \E i \in 1..EntryCap : Skipped(fdoc[i])
  /\ ~Skipped(fdoc[EntryCap + 1])
  /\ Len(fout) = EntryCap - 1

\* C10: every returned article has a title and a link that are not empty
\* after trimming, and an entry whose title or link is empty after trimming
\* yields no article.
C10_NoBlank ==
  fpc = "returned" =>
    /\ \A a \in 1..Len(fout) : ~IsBlank(fout[a].title) /\ ~IsBlank(fout[a].link)
    /\ \A i \in 1..Len(fdoc) :
         Skipped(fdoc[i]) => GoodEntry(i).link \notin Links(fout)

C10_Witness ==
  /\ fpc = "returned"
  /\ \E i \in 1..Len(fdoc), j \in 1..Len(fdoc) :
       /\ i < j /\ j <= EntryCap
       /\ "title" \in DOMAIN fdoc[i] /\ fdoc[i].title # << >> /\ IsBlank(fdoc[i].title)
       /\ "link" \in DOMAIN fdoc[j] /\ fdoc[j].link # << >> /\ IsBlank(fdoc[j].link)
  /\ Len(fout) = Len(fdoc) - 2

\* C14: of the articles that share a link the merge keeps the one that comes
\* last in all_articles, the concatenation of the results in the order in
\* which they were appended.
C14_LastWins ==
  pc \in {"saving", "returned"} =>
    \A i \in 1..Len(unique_articles) :
      unique_articles[i] =
        all_articles[Max({j \in 1..Len(all_articles) :
                            all_articles[j].link = unique_articles[i].link})]

C14_Witness ==
  /\ pc = "saving"
  /\ \E j \in 1..Len(all_articles), k \in 1..Len(all_articles) :
       /\ j < k
       /\ all_articles[j].link = all_articles[k].link
       /\ all_articles[j] # all_articles[k]
       /\ \A m \in 1..Len(all_articles) :
            all_articles[m].link = all_articles[k].link => m <= k
       /\ \E i \in 1..Len(unique_articles) : unique_articles[i] = all_articles[k]

\* C16: in a run insert_article is called once for each link of the merged
\* list and for no other link, and the calls are made one after the other by
\* the loop of save_articles.
C16_OneWritePerLink ==
  /\ [](/\ Cardinality(CallLinks(calls)) = Len(calls)
        /\ CallLinks(calls) \subseteq Links(unique_articles)
        /\ pc = "returned" => CallLinks(calls) = Links(unique_articles))
  /\ [][calls' # calls =>
          \/ calls' = << >>
          \/ /\ pc = "saving"
             /\ Running = {}
             /\ Len(calls') = Len(calls) + 1
             /\ SubSeq(calls', 1, Len(calls)) = calls]_vars

C16_Witness ==
  /\ pc = "returned"
  /\ Len(calls) = 2
  /\ Len(all_articles) > 2

\* C17: in the returned stats the processed count is the number of unique
\* articles handed to insert_article and is inserted + updated + skipped; the
\* inserted and skipped counts are the numbers of calls that returned true,
\* and that returned false or raised.
C17_StatsConsistent ==
  pc = "returned" =>
    LET s == ret.stats
    IN  /\ Get(s, "total_processed", 0) = Len(unique_articles)
        /\ Get(s, "total_processed", 0) =
             Get(s, "inserted", 0) + Get(s, "updated", 0) + Get(s, "skipped", 0)
        /\ Get(s, "inserted", 0) = Count(calls, {"inserted"})
        /\ Get(s, "skipped", 0) = Count(calls, {"skipped", "raised"})

\* The results of the fetch tasks put together in the order of the feed list.
RECURSIVE InFeedOrder(_)
InFeedOrder(t) ==
  IF t > Len(feeds_to_process) THEN << >>
  ELSE result[t].value \o InFeedOrder(t + 1)

\* The links that the contents of the selected feeds hold.
ContentLinks ==
  UNION {Links(CollectFromFeed(feeds_to_process[t], parse[t]).value) : t \in Tasks}

\* C20: the links of the merged list, and the links insert_article is called
\* for, are a function of the contents of the selected feeds: they do not
\* depend on the order in which the fetch tasks completed.
C20_LinkSetDeterministic ==
  /\ pc \in {"saving", "returned"} => Links(unique_articles) = ContentLinks
  /\ pc = "returned" => CallLinks(calls) = ContentLinks

\* A merge whose result differs from the merge in the order of the feed list.
C20_Witness ==
  /\ pc = "returned"
  /\ unique_articles # << >>
  /\ unique_articles # Dedupe(InFeedOrder(1))
  /\ Links(unique_articles) = Links(Dedupe(InFeedOrder(1)))

\* The article that collect_from_feed returned for the i-th entry, if any.
ArticlesOf(i) == {a \in 1..Len(fout) : fout[a].link = GoodEntry(i).link}

FirstFifteen == 1..(IF Len(fdoc) < EntryCap THEN Len(fdoc) ELSE EntryCap)

\* The published date of an entry is absent or cannot be parsed.
NoDate(entry) == "published" \notin DOMAIN entry \/ entry.published # GoodDate

\* An entry that is not skipped yields one article, with the default
\* timestamp when its date is absent or cannot be parsed.
Emitted(i) ==
  /\ Cardinality(ArticlesOf(i)) = 1
  /\ \A a \in ArticlesOf(i) :
       /\ NoDate(fdoc[i]) => fout[a].published = NowIso
       /\ ~NoDate(fdoc[i]) => fout[a].published = DateutilIso(GoodDate)

\* C15, as stated: among the first 15 entries, one without title or without
\* link is skipped, one with an absent or unparsable date gets the default
\* timestamp, and every other entry is emitted.
C15_MissingSkipped ==
  fpc = "returned" =>
    \A i \in FirstFifteen :
      IF "title" \notin DOMAIN fdoc[i] \/ "link" \notin DOMAIN fdoc[i] \/ Skipped(fdoc[i])
      THEN ArticlesOf(i) = {}
      ELSE Emitted(i)

\* C15, amended: an entry without link, or with a title or link that is
\* empty after trimming, is skipped; an entry without title is emitted under
\* the title "No Title"; the rest as stated.
C15_EntryRecovery ==
  fpc = "returned" =>
    \A i \in FirstFifteen :
      IF Skipped(fdoc[i])
      THEN ArticlesOf(i) = {}
      ELSE /\ Emitted(i)
           /\ "title" \notin DOMAIN fdoc[i] =>
                \A a \in ArticlesOf(i) : fout[a].title = NoTitle

C15_Witness ==
  /\ fpc = "returned"
  /\ \E i \in FirstFifteen, k \in FirstFifteen :
       /\ i < k
       /\ "title" \notin DOMAIN fdoc[i]
       /\ fdoc[k].published = "garbage"
       /\ \E a \in ArticlesOf(i) : fout[a].title = NoTitle
       /\ \E a \in ArticlesOf(k) : fout[a].published = NowIso
  /\ Len(fout) = Len(fdoc)
  /\ Len(fdoc) > 2

\* C11: with the API key unset, extract_keywords on a non-empty text does not
\* raise and returns what the rule-based fallback extractor returns for it.
C11_FallbackOnMissingKey ==
  (kpc = "returned" /\ KeyMissing(kkey) /\ ktext # << >>)
    => /\ ~kout.raised
       /\ kout.value = extract_simple_keywords(ktext)

\* C12: on every path the list extract_keywords returns has at most 8
\* entries, none of length <= 1 and none whose lower-cased form is a stop-word.
C12_KeywordFilter ==
  kpc = "returned"
    => /\ ~kout.raised
       /\ Len(kout.value) <= KeywordCap
       /\ \A i \in 1..Len(kout.value) :
            /\ Len(kout.value[i]) > 1
            /\ Lower(kout.value[i]) \notin STOP_WORDS

\* The remote call answered with more than 8 keywords, stop-words and a
\* single character among them, and 8 keywords were returned.
C12_Witness ==
  /\ kpc = "returned"
  /\ ~KeyMissing(kkey)
  /\ ktext # << >>
  /\ ~kremote.raises
  /\ LET parts == Split(kremote.content, ",")
     IN  /\ Len(parts) > KeywordCap
         /\ \E i \in 1..Len(parts) : Lower(Strip(parts[i])) \in STOP_WORDS
         /\ \E i \in 1..Len(parts) : Len(Strip(parts[i])) = 1
  /\ Len(kout.value) = KeywordCap

\* The words of a text are "AI", the Korean word for blockchain, and
\* stop-words, and both of the former are among them.
AIAndBlockchainAmongStopWords(text) ==
  LET words == Split(text, " ")
      ai    == <<"A", "I">>
      chain == <<"U+BE14", "U+B85D", "U+CCB4", "U+C778">>
  IN  /\ \E i \in 1..Len(words) : words[i] = ai
      /\ \E i \in 1..Len(words) : words[i] = chain
      /\ \A i \in 1..Len(words) :
           words[i] \in {ai, chain} \/ Lower(words[i]) \in STOP_WORDS

\* C13: the remote call failing, a text of "AI", the Korean word for
\* blockchain and stop-words only gives exactly those two terms.
C13_FallbackResult ==
  (/\ kpc = "returned"
   /\ ~KeyMissing(kkey)
   /\ kremote.raises
   /\ AIAndBlockchainAmongStopWords(ktext))
    => kout.value = <<<<"A", "I">>, <<"U+BE14", "U+B85D", "U+CCB4", "U+C778">>>>

\* C18: when init_database fails at startup, the service does not come to be
\* started and accepting collection requests.
C18_InitFailureSurfaced ==
  ~(db_init = "failed" /\ server = "started" /\ runNo > 0)

\* C19: of two overlapping runs, the stats each returns hold the counts of
\* its own calls of insert_article and of no others.
C19_RunIsolation ==
  \A r \in Runs :
    o_pc[r] = "returned"
      => LET st == o_heap[o_ret[r]]
         IN  /\ Get(st, "inserted", 0) = Count(o_calls[r], {"inserted"})
             /\ Get(st, "skipped", 0) = Count(o_calls[r], {"skipped", "raised"})

=============================================================================
